---- MODULE Spec2Model ----
(***************************************************************************)
(* Pod Doctor (src/app.py): a chat front end that reads a pod's detail,    *)
(* events and logs from the cluster, composes one prompt and asks a        *)
(* language model.                                                         *)
(*                                                                         *)
(* Text is modelled as a sequence of pieces: the empty string is <<>>,     *)
(* string concatenation (+=, f-strings) is \o, and a literal of the source *)
(* is one piece holding that literal.  Names handed out by the cluster     *)
(* (namespaces, pods, event fields) are atoms; Python's None is the atom   *)
(* None.                                                                   *)
(***************************************************************************)
EXTENDS Naturals, Sequences, FiniteSets, TLC

VARIABLES
    namespace,        \* value of the Namespace dropdown (None: nothing chosen)
    pod,              \* value of the Pod dropdown (None: nothing chosen)
    pod_choices,      \* choices of the Pod dropdown
    include_events,   \* value of the Include Events checkbox
    include_logs,     \* value of the Include Logs checkbox
    chatbot,          \* value of the Chatbot: the chat history on display
    pc,               \* position of the respond callback ("idle": not running)
    args,             \* arguments of the running (or last) respond call
    chat_history,     \* the chat_history argument of that call
    pod_info,         \* get_pod_info: the object read_namespaced_pod returned
    events,           \* get_pod_info: the list list_namespaced_event returned
    info,             \* get_pod_info: the dictionary being built / returned
    prompt,           \* call_llm: the composed prompt
    messages,         \* call_llm: the messages sent to chat.completions.create
    bot_message,      \* respond: the answer call_llm returned
    calls,            \* external calls made by the current (or last) respond call
    outcome           \* how the last respond call ended

sel == <<namespace, pod, pod_choices, include_events, include_logs>>
turn == <<pc, args, chat_history, pod_info, events, info, prompt, messages,
          bot_message, calls, outcome>>
vars == <<namespace, pod, pod_choices, include_events, include_logs, chatbot,
          pc, args, chat_history, pod_info, events, info, prompt, messages,
          bot_message, calls, outcome>>

----------------------------------------------------------------------------
(* Bounds of the model. *)

\* Turns the chat history holds before the session takes no more messages.
MaxTurns == 2
\* The same, where the cluster's answers range over BundlePods,
\* EventLists(MaxEvents) and LogTexts (SpecBundle).
MaxBundleTurns == 2
\* Longest event list the cluster returns under SpecBundle.
MaxEvents == 3

----------------------------------------------------------------------------
(* Python values. *)

None == "None"

\* str() of a bool, as an f-string renders it.
PyStr(b) == IF b THEN <<"True">> ELSE <<"False">>

\* What yaml.dump writes for a scalar: null for None.
YamlScalar(v) == IF v = None THEN "null" ELSE v

----------------------------------------------------------------------------
(* The cluster and the model service, as the callbacks see them. *)

\* v1.list_namespace(): the namespaces of the cluster.
list_namespaces == <<"ns1", "ns2">>

\* v1.list_namespaced_pod(namespace): the pod names of a namespace.
list_pods(ns) ==
    CASE ns = "ns1" -> <<"p1">>
      [] ns = "ns2" -> <<"p2">>
      [] OTHER -> <<>>

SeqToSet(s) == {s[i] : i \in DOMAIN s}

AllPods == UNION {SeqToSet(list_pods(ns)) : ns \in SeqToSet(list_namespaces)}

\* A pod object as v1.read_namespaced_pod returns it.
V1Pod(ns, p, mf, phase) ==
    [metadata |-> [managed_fields |-> mf, name |-> p, namespace |-> ns],
     status   |-> [phase |-> phase]]

\* The managed-fields values a pod may carry (None: the pod has none).
ManagedFields == {None, "manager: kubelet"}
Phases == {"Running", "Pending"}

\* The event objects of the cluster; involved is involved_object.name.
Ev1 == [name |-> "ev1", message |-> "assigned to node1", reason |-> "Scheduled",
        involved |-> "p1"]
Ev2 == [name |-> "ev2", message |-> "image pulled", reason |-> "Pulled",
        involved |-> "p1"]
Ev3 == [name |-> "ev3", message |-> "back-off", reason |-> "BackOff",
        involved |-> "p2"]
EventPool == {Ev1, Ev2, Ev3}

\* Every list of at most n events of the pool.
EventLists(n) == UNION {[1..k -> EventPool] : k \in 0..n}

\* Log texts read_namespaced_pod_log may return; <<>> is the empty text.
LogTexts == {<<>>, <<"starting\n", "ready\n">>}

\* Answers of the model service.
Answers == {<<"restart the pod">>, <<"check the image">>}

\* Messages the user may type; <<>> is the empty textbox.
Messages == {<<>>, <<"why is it failing?">>}

----------------------------------------------------------------------------
(* get_pod_info, lines 34-70. *)

\* pod_info.to_dict(): the object's attributes as dictionary keys.
to_dict(obj) ==
    [metadata |-> [managed_fields |-> obj.metadata.managed_fields,
                   name |-> obj.metadata.name,
                   namespace |-> obj.metadata.namespace],
     status   |-> [phase |-> obj.status.phase]]

\* Mutant of lines 49-50: line 50 left out.
pod_info_map_unstripped(obj) == to_dict(obj)

\* Lines 49-50: the dictionary with metadata.managed_fields set to None.
pod_info_map(obj) ==
    [to_dict(obj) EXCEPT !["metadata"]["managed_fields"] = None]

\* Lines 58-62: the reduced shape of one event.
EventEntry(event) ==
    [Name |-> event.name, Message |-> event.message, Reason |-> event.reason]

\* Mutant of lines 57-65: the matching events collected newest first.
RECURSIVE EventsOfPodReversed(_, _)
EventsOfPodReversed(items, p) ==
    IF items = <<>> THEN <<>>
    ELSE IF Head(items).involved = p
         THEN EventsOfPodReversed(Tail(items), p) \o <<EventEntry(Head(items))>>
         ELSE EventsOfPodReversed(Tail(items), p)

\* Lines 57-65: the list comprehension over events.items.
RECURSIVE EventsOfPod(_, _)
EventsOfPod(items, p) ==
    IF items = <<>> THEN <<>>
    ELSE IF Head(items).involved = p
         THEN <<EventEntry(Head(items))>> \o EventsOfPod(Tail(items), p)
         ELSE EventsOfPod(Tail(items), p)

\* Mutant of lines 57 and 68: the key is set only to a value that is not
\* empty.
SetKeyUnlessEmpty(d, key, value) ==
    IF value = <<>> THEN d ELSE (key :> value) @@ d

\* info[key] = value on a dictionary.
SetKey(d, key, value) == (key :> value) @@ d

----------------------------------------------------------------------------
(* create_prompt, lines 73-93. *)

PodInfoHeader == "Pod Info: \n "
EventsHeader == "Here are the last few events for the pod: \n"
LogsHeader == "Here are the last few logs for the pod: \n"

\* yaml.dump of the pod dictionary: block style, keys sorted.
yaml_dump(d) ==
    << "metadata:\n",
       "  managed_fields: ", YamlScalar(d.metadata.managed_fields), "\n",
       "  name: ", YamlScalar(d.metadata.name), "\n",
       "  namespace: ", YamlScalar(d.metadata.namespace), "\n",
       "status:\n",
       "  phase: ", YamlScalar(d.status.phase), "\n" >>

\* `if info.get(key)`: the key is there and its list or text is not empty.
Truthy(d, key) == key \in DOMAIN d /\ d[key] # <<>>

\* Line 89: one event line.
EventLine(event) ==
    <<"Event: ", event.Name, ", Reason: ", event.Reason,
      ", Message: ", event.Message, "\n">>

\* Lines 88-89: the loop over info["Events"].
RECURSIVE EventLines(_)
EventLines(evs) ==
    IF evs = <<>> THEN <<>>
    ELSE EventLine(Head(evs)) \o EventLines(Tail(evs))

\* Mutant of line 86: `if "Events" in info`.
create_prompt_events_if_key(msg, d) ==
    LET p1 == msg \o <<"\n">>
        p2 == p1 \o <<PodInfoHeader>> \o yaml_dump(d["PodInfo"]) \o <<" \n">>
        p3 == IF "Events" \in DOMAIN d
              THEN p2 \o <<EventsHeader>> \o EventLines(d["Events"])
              ELSE p2
        p4 == IF Truthy(d, "Logs")
              THEN p3 \o <<LogsHeader>> \o d["Logs"]
              ELSE p3
    IN  p4

\* Mutant of lines 86-92: the two optional blocks in the other order.
create_prompt_logs_first(msg, d) ==
    LET p1 == msg \o <<"\n">>
        p2 == p1 \o <<PodInfoHeader>> \o yaml_dump(d["PodInfo"]) \o <<" \n">>
        p3 == IF Truthy(d, "Logs")
              THEN p2 \o <<LogsHeader>> \o d["Logs"]
              ELSE p2
        p4 == IF Truthy(d, "Events")
              THEN p3 \o <<EventsHeader>> \o EventLines(d["Events"])
              ELSE p3
    IN  p4

create_prompt(msg, d) ==
    LET p1 == msg \o <<"\n">>
        p2 == p1 \o <<PodInfoHeader>> \o yaml_dump(d["PodInfo"]) \o <<" \n">>
        p3 == IF Truthy(d, "Events")
              THEN p2 \o <<EventsHeader>> \o EventLines(d["Events"])
              ELSE p2
        p4 == IF Truthy(d, "Logs")
              THEN p3 \o <<LogsHeader>> \o d["Logs"]
              ELSE p3
    IN  p4

----------------------------------------------------------------------------
(* The state after construction, lines 135-166. *)

NoArgs == [message |-> <<>>, namespace |-> None, pod |-> None,
           include_events |-> FALSE, include_logs |-> FALSE]

\* The locals of a respond call that is not running.
TurnIdle ==
    /\ pc = "idle"
    /\ args = NoArgs
    /\ chat_history = <<>>
    /\ pod_info = None
    /\ events = <<>>
    /\ info = <<>>
    /\ prompt = <<>>
    /\ messages = <<>>
    /\ bot_message = <<>>

Init ==
    /\ namespace = None
    /\ pod = None
    /\ pod_choices = <<>>
    /\ include_events = FALSE
    /\ include_logs = FALSE
    /\ chatbot = <<>>
    /\ TurnIdle
    /\ calls = <<>>
    /\ outcome = "none"

----------------------------------------------------------------------------
(* The selection widgets, lines 142-164. *)

\* namespace_change, lines 122-133, run by namespace.change (line 164) when
\* the user picks another namespace: the returned gr.Dropdown(choices=pods)
\* updates the choices of the pod dropdown and nothing else of it.
namespace_change(value) ==
    /\ pod_choices' = list_pods(value)
    /\ pod' = pod

\* The user picks a namespace; list_pods answers.
SelectNamespace(value) ==
    /\ value \in SeqToSet(list_namespaces)
    /\ value # namespace
    /\ namespace' = value
    /\ namespace_change(value)
    /\ UNCHANGED <<include_events, include_logs, chatbot, turn>>

\* The user picks a namespace; list_pods raises, so the callback gives the
\* pod dropdown no update.
SelectNamespaceFails(value) ==
    /\ value \in SeqToSet(list_namespaces)
    /\ value # namespace
    /\ namespace' = value
    /\ UNCHANGED <<pod, pod_choices, include_events, include_logs, chatbot, turn>>

\* The user picks one of the choices of the pod dropdown.
SelectPod(p) ==
    /\ p \in SeqToSet(pod_choices)
    /\ p # pod
    /\ pod' = p
    /\ UNCHANGED <<namespace, pod_choices, include_events, include_logs,
                   chatbot, turn>>

ToggleEvents ==
    /\ include_events' = ~include_events
    /\ UNCHANGED <<namespace, pod, pod_choices, include_logs, chatbot, turn>>

ToggleLogs ==
    /\ include_logs' = ~include_logs
    /\ UNCHANGED <<namespace, pod, pod_choices, include_events, chatbot, turn>>

----------------------------------------------------------------------------
(* respond, lines 168-176, with call_llm (96-120) and get_pod_info (34-70). *)

ValidationMessage == <<"Please select a namespace and pod.">>

\* Mutants of line 169: the test without its selection part, and without its
\* message part.
InvalidMessageOnly(a) == a.message = <<>>
InvalidSelectionOnly(a) == a.namespace = None \/ a.pod = None

\* Line 169: `not namespace or not pod or not message`.
Invalid(a) == a.namespace = None \/ a.pod = None \/ a.message = <<>>

\* Line 170: `message or "Error"`.
MessageOrError(message) == IF message = <<>> THEN <<"Error">> ELSE message

\* Line 173: the displayed request of an answered turn.
new_message(a) ==
    <<"Namespace ", a.namespace, ", Pod: ", a.pod, ", Include Events: ">>
    \o PyStr(a.include_events) \o <<", Include Logs: ">>
    \o PyStr(a.include_logs) \o <<" \n ">> \o a.message

\* The respond call ends: the locals of call_llm and get_pod_info are gone;
\* args and chat_history keep the arguments of the call until the next one.
EndTurn(how) ==
    /\ pc' = "idle"
    /\ UNCHANGED <<args, chat_history>>
    /\ pod_info' = None
    /\ events' = <<>>
    /\ info' = <<>>
    /\ prompt' = <<>>
    /\ messages' = <<>>
    /\ bot_message' = <<>>
    /\ outcome' = how

\* Mutant of lines 110-120: every exception is caught and raised again as one
\* generic Exception.
RaiseGeneric(call, exception) ==
    /\ calls' = Append(calls, call)
    /\ EndTurn("Exception")
    /\ UNCHANGED <<sel, chatbot>>

\* Mutant of lines 172-175: the exception is caught and shown as the
\* response of a turn.
RaiseShowsError(call, exception) ==
    /\ calls' = Append(calls, call)
    /\ chatbot' = Append(chat_history, <<args.message, <<exception>>>>)
    /\ EndTurn(exception)
    /\ UNCHANGED sel

\* An external call raises: nothing catches it, so respond ends with the
\* exception and returns nothing to the chatbot.
Raise(call, exception) ==
    /\ calls' = Append(calls, call)
    /\ EndTurn(exception)
    /\ UNCHANGED <<sel, chatbot>>

\* Line 176: msg.submit runs respond on the current values of the widgets.
Submit(message) ==
    /\ pc = "idle"
    /\ pc' = "respond"
    /\ args' = [message |-> message, namespace |-> namespace, pod |-> pod,
                include_events |-> include_events,
                include_logs |-> include_logs]
    /\ chat_history' = chatbot
    /\ calls' = <<>>
    /\ outcome' = "running"
    /\ UNCHANGED <<sel, chatbot, pod_info, events, info, prompt, messages,
                   bot_message>>

\* Mutant of lines 170-171: the validation turn is returned as a new history
\* instead of being appended to the one passed in.
RespondInvalidReplacesHistory ==
    /\ pc = "respond"
    /\ Invalid(args)
    /\ chatbot' = << <<MessageOrError(args.message), ValidationMessage>> >>
    /\ EndTurn("validation")
    /\ UNCHANGED <<sel, calls>>

\* Lines 169-171: the validation turn.
RespondInvalid ==
    /\ pc = "respond"
    /\ Invalid(args)
    /\ chatbot' = Append(chat_history,
                         <<MessageOrError(args.message), ValidationMessage>>)
    /\ EndTurn("validation")
    /\ UNCHANGED <<sel, calls>>

\* Where get_pod_info goes on after the pod is read / the events are listed.
AfterPod(a) ==
    IF a.include_events THEN "list_namespaced_event"
    ELSE IF a.include_logs THEN "read_namespaced_pod_log"
    ELSE "create_prompt"

\* Mutant of line 66: the logs are read whatever include_logs says.
AfterEventsAlwaysLogs(a) == "read_namespaced_pod_log"

AfterEvents(a) ==
    IF a.include_logs THEN "read_namespaced_pod_log" ELSE "create_prompt"

\* The cluster has the pod the call names.
PodExists(a) == a.pod \in SeqToSet(list_pods(a.namespace))

\* Mutant of lines 47-48: the pod is read from the cluster in the first turn
\* of a session only; later turns take it from a cache.
ReadNamespacedPodCached(obj) ==
    /\ pc = "respond"
    /\ ~Invalid(args)
    /\ PodExists(args)
    /\ obj.metadata.name = args.pod
    /\ obj.metadata.namespace = args.namespace
    /\ calls' = IF chat_history = <<>>
                THEN Append(calls, "read_namespaced_pod") ELSE calls
    /\ pod_info' = obj
    /\ info' = [PodInfo |-> pod_info_map(obj)]
    /\ pc' = AfterPod(args)
    /\ UNCHANGED <<sel, chatbot, args, chat_history, events, prompt, messages,
                   bot_message, outcome>>

\* Lines 172, 110, 47-54: respond calls call_llm, which calls get_pod_info,
\* which reads the pod.
ReadNamespacedPod(obj) ==
    /\ pc = "respond"
    /\ ~Invalid(args)
    /\ PodExists(args)
    /\ obj.metadata.name = args.pod
    /\ obj.metadata.namespace = args.namespace
    /\ calls' = Append(calls, "read_namespaced_pod")
    /\ pod_info' = obj
    /\ info' = [PodInfo |-> pod_info_map(obj)]
    /\ pc' = AfterPod(args)
    /\ UNCHANGED <<sel, chatbot, args, chat_history, events, prompt, messages,
                   bot_message, outcome>>

ReadNamespacedPodRaises ==
    /\ pc = "respond"
    /\ ~Invalid(args)
    /\ Raise("read_namespaced_pod", "ApiException")

\* Lines 55-65.
ListNamespacedEvent(items) ==
    /\ pc = "list_namespaced_event"
    /\ calls' = Append(calls, "list_namespaced_event")
    /\ events' = items
    /\ info' = SetKey(info, "Events", EventsOfPod(items, args.pod))
    /\ pc' = AfterEvents(args)
    /\ UNCHANGED <<sel, chatbot, args, chat_history, pod_info, prompt,
                   messages, bot_message, outcome>>

\* Mutant of line 56: a failed listing is caught and the bundle goes on
\* without its events.
ListNamespacedEventSwallowed ==
    /\ pc = "list_namespaced_event"
    /\ calls' = Append(calls, "list_namespaced_event")
    /\ pc' = AfterEvents(args)
    /\ UNCHANGED <<sel, chatbot, args, chat_history, pod_info, events, info,
                   prompt, messages, bot_message, outcome>>

ListNamespacedEventRaises ==
    /\ pc = "list_namespaced_event"
    /\ Raise("list_namespaced_event", "ApiException")

\* Lines 66-68.
ReadNamespacedPodLog(logs) ==
    /\ pc = "read_namespaced_pod_log"
    /\ calls' = Append(calls, "read_namespaced_pod_log")
    /\ info' = SetKey(info, "Logs", logs)
    /\ pc' = "create_prompt"
    /\ UNCHANGED <<sel, chatbot, args, chat_history, pod_info, events, prompt,
                   messages, bot_message, outcome>>

ReadNamespacedPodLogRaises ==
    /\ pc = "read_namespaced_pod_log"
    /\ Raise("read_namespaced_pod_log", "ApiException")

\* Lines 70, 111: get_pod_info returns info and call_llm composes the prompt.
CreatePrompt ==
    /\ pc = "create_prompt"
    /\ prompt' = create_prompt(args.message, info)
    /\ pod_info' = None
    /\ events' = <<>>
    /\ pc' = "completions_create"
    /\ UNCHANGED <<sel, chatbot, args, chat_history, info, messages,
                   bot_message, calls, outcome>>

\* Line 116: the fixed system instruction.
SystemContent ==
    <<"You are a kubernetes expert, and will help the user with request below based on the context and info provided">>

\* Lines 115-118: the messages of the request, the prompt as the user's.
ChatMessages(p) ==
    <<[role |-> "system", content |-> SystemContent],
      [role |-> "user", content |-> p]>>

\* Mutant of lines 111-118: the request carries the user's message as typed,
\* not the prompt composed from it and the bundle.
ChatCompletionsCreateOnMessage(answer) ==
    /\ pc = "completions_create"
    /\ calls' = Append(calls, "chat.completions.create")
    /\ messages' = ChatMessages(args.message)
    /\ bot_message' = answer
    /\ info' = <<>>
    /\ prompt' = <<>>
    /\ pc' = "append"
    /\ UNCHANGED <<sel, chatbot, args, chat_history, pod_info, events, outcome>>

\* Lines 113-120, 172: the model service answers and call_llm returns.
ChatCompletionsCreate(answer) ==
    /\ pc = "completions_create"
    /\ calls' = Append(calls, "chat.completions.create")
    /\ messages' = ChatMessages(prompt)
    /\ bot_message' = answer
    /\ info' = <<>>
    /\ prompt' = <<>>
    /\ pc' = "append"
    /\ UNCHANGED <<sel, chatbot, args, chat_history, pod_info, events, outcome>>

\* Mutant of lines 113-119: a failed call is made again.
ChatCompletionsCreateRetries ==
    /\ pc = "completions_create"
    /\ Len(calls) < 6
    /\ calls' = Append(calls, "chat.completions.create")
    /\ UNCHANGED <<sel, chatbot, pc, args, chat_history, pod_info, events,
                   info, prompt, messages, bot_message, outcome>>

ChatCompletionsCreateRaises ==
    /\ pc = "completions_create"
    /\ Raise("chat.completions.create", "OpenAIError")

\* Mutant of line 173: the displayed request is written from the values the
\* widgets have when the answer arrives.
RespondAppendShowsSelection ==
    /\ pc = "append"
    /\ chatbot' = Append(chat_history,
                         <<new_message([args EXCEPT
                                          !.namespace = namespace,
                                          !.pod = pod,
                                          !.include_events = include_events,
                                          !.include_logs = include_logs]),
                           bot_message>>)
    /\ EndTurn("answered")
    /\ UNCHANGED <<sel, calls>>

\* Mutant of lines 175-176: the pod dropdown is among the outputs of respond
\* and is reset with the textbox.
RespondAppendClearsPod ==
    /\ pc = "append"
    /\ chatbot' = Append(chat_history, <<new_message(args), bot_message>>)
    /\ EndTurn("answered")
    /\ pod' = None
    /\ UNCHANGED <<namespace, pod_choices, include_events, include_logs, calls>>

\* Lines 173-175: the answered turn.
RespondAppend ==
    /\ pc = "append"
    /\ chatbot' = Append(chat_history, <<new_message(args), bot_message>>)
    /\ EndTurn("answered")
    /\ UNCHANGED <<sel, calls>>

----------------------------------------------------------------------------
(* The session: the widgets and the respond callback. *)

\* What the cluster and the model service answer in the session.
SessionPods == {V1Pod(ns, p, "manager: kubelet", "Running") :
                    ns \in SeqToSet(list_namespaces), p \in AllPods}
SessionEventLists == {<<>>, <<Ev1, Ev3>>}
SessionLogTexts == {<<"starting\n", "ready\n">>}

Next ==
    \/ \E value \in SeqToSet(list_namespaces) : SelectNamespace(value)
    \/ \E value \in SeqToSet(list_namespaces) : SelectNamespaceFails(value)
    \/ \E p \in AllPods : SelectPod(p)
    \/ ToggleEvents
    \/ ToggleLogs
    \/ /\ Len(chatbot) < MaxTurns
       /\ \E message \in Messages : Submit(message)
    \/ RespondInvalid
    \/ \E obj \in SessionPods : ReadNamespacedPod(obj)
    \/ ReadNamespacedPodRaises
    \/ \E items \in SessionEventLists : ListNamespacedEvent(items)
    \/ ListNamespacedEventRaises
    \/ \E logs \in SessionLogTexts : ReadNamespacedPodLog(logs)
    \/ ReadNamespacedPodLogRaises
    \/ CreatePrompt
    \/ \E answer \in Answers : ChatCompletionsCreate(answer)
    \/ ChatCompletionsCreateRaises
    \/ RespondAppend

Spec == Init /\ [][Next]_vars

----------------------------------------------------------------------------
(* The respond callback on a selected pod, over every answer of the        *)
(* cluster: each pod object, each event list, each log text.               *)

BundlePods == {V1Pod(ns, p, mf, phase) :
                   ns \in SeqToSet(list_namespaces), p \in AllPods,
                   mf \in ManagedFields, phase \in Phases}

\* A session in which a namespace and one of its pods are selected.
InitBundle ==
    /\ namespace \in SeqToSet(list_namespaces)
    /\ pod_choices = list_pods(namespace)
    /\ pod \in SeqToSet(pod_choices)
    /\ include_events \in BOOLEAN
    /\ include_logs \in BOOLEAN
    /\ chatbot = <<>>
    /\ TurnIdle
    /\ calls = <<>>
    /\ outcome = "none"

NextBundle ==
    \/ /\ Len(chatbot) < MaxBundleTurns
       /\ \E message \in Messages : Submit(message)
    \/ RespondInvalid
    \/ \E obj \in BundlePods : ReadNamespacedPod(obj)
    \/ ReadNamespacedPodRaises
    \/ \E items \in EventLists(MaxEvents) : ListNamespacedEvent(items)
    \/ ListNamespacedEventRaises
    \/ \E logs \in LogTexts : ReadNamespacedPodLog(logs)
    \/ ReadNamespacedPodLogRaises
    \/ CreatePrompt
    \/ \E answer \in Answers : ChatCompletionsCreate(answer)
    \/ ChatCompletionsCreateRaises
    \/ RespondAppend

SpecBundle == InitBundle /\ [][NextBundle]_vars

----------------------------------------------------------------------------
(* Properties of the session. *)

\* How often a call occurs in a list of calls.
Count(seq, call) == Cardinality({i \in DOMAIN seq : seq[i] = call})

\* A respond call was made and args, chat_history, calls are those of it.
Called == outcome # "none"

\* C1: selecting a new namespace clears the selected pod and shows the pod
\* list fetched for the new namespace: every step in which namespace_change
\* runs to its end leaves pod unset and pod_choices = list_pods(namespace).
C1_NamespaceChangeClearsPod ==
    [][(\E value \in SeqToSet(list_namespaces) : SelectNamespace(value))
         => (pod' = None /\ pod_choices' = list_pods(namespace'))]_vars

\* C2 as stated: a submission with the namespace or the pod missing makes no
\* external call, raises nothing, and adds exactly one turn, whose response
\* is the validation message and whose displayed request is the message as
\* submitted.
C2_MissingSelectionShowsOriginalMessage ==
    (Called /\ (args.namespace = None \/ args.pod = None)) =>
        /\ calls = <<>>
        /\ pc \in {"respond", "idle"}
        /\ pc = "idle" =>
              /\ outcome = "validation"
              /\ chatbot = Append(chat_history,
                                  <<args.message, ValidationMessage>>)

\* C2 as amended: the same, the displayed request being the message as
\* submitted, or "Error" when the message is empty.
C2_MissingSelectionValidationTurn ==
    (Called /\ (args.namespace = None \/ args.pod = None)) =>
        /\ calls = <<>>
        /\ pc \in {"respond", "idle"}
        /\ pc = "idle" =>
              /\ outcome = "validation"
              /\ chatbot = Append(chat_history,
                                  <<IF args.message = <<>> THEN <<"Error">>
                                    ELSE args.message,
                                    ValidationMessage>>)

\* A non-empty message was submitted with a namespace and no pod selected,
\* and the validation turn is on display.
C2_Witness ==
    /\ pc = "idle"
    /\ outcome = "validation"
    /\ args.namespace # None
    /\ args.pod = None
    /\ args.message # <<>>
    /\ Len(chatbot) = Len(chat_history) + 1

\* C3: a submission of the empty message with namespace and pod selected
\* makes no external call and adds exactly one turn, whose displayed request
\* is the placeholder "Error" and whose response is the validation message.
C3_EmptyMessageValidationTurn ==
    (Called /\ args.namespace # None /\ args.pod # None
            /\ args.message = <<>>) =>
        /\ calls = <<>>
        /\ pc \in {"respond", "idle"}
        /\ pc = "idle" =>
              /\ outcome = "validation"
              /\ chatbot = Append(chat_history,
                                  << <<"Error">>, ValidationMessage >>)

\* The empty message was submitted on a selected pod, after an earlier turn.
C3_Witness ==
    /\ pc = "idle"
    /\ outcome = "validation"
    /\ args.namespace # None
    /\ args.pod # None
    /\ args.message = <<>>
    /\ chat_history # <<>>
    /\ Len(chatbot) = Len(chat_history) + 1

\* C10: the model service is called at most once per submitted message, a
\* failed call ends the turn without another call, the history on display
\* does not change while a turn is running, and it changes only by the
\* validation turn or, once the call has returned, by one turn that holds the
\* whole answer.
C10_OneCompletionCallWholeAnswer ==
    /\ [](/\ Count(calls, "chat.completions.create") <= 1
          /\ outcome = "OpenAIError" =>
                /\ pc = "idle"
                /\ chatbot = chat_history
                /\ Count(calls, "chat.completions.create") = 1
          /\ pc # "idle" => chatbot = chat_history)
    /\ [][chatbot' # chatbot =>
            \/ pc = "respond" /\ outcome' = "validation"
            \/ /\ pc = "append"
               /\ calls # <<>>
               /\ calls[Len(calls)] = "chat.completions.create"
               /\ Len(chatbot') = Len(chatbot) + 1
               /\ SubSeq(chatbot', 1, Len(chatbot)) = chatbot
               /\ chatbot'[Len(chatbot')][2] = bot_message]_vars

\* An answered turn is on display after exactly one call of the model
\* service.
C10_Witness ==
    /\ pc = "idle"
    /\ outcome = "answered"
    /\ Count(calls, "chat.completions.create") = 1
    /\ Len(chatbot) = Len(chat_history) + 1
    /\ chatbot[Len(chatbot)][2] \in Answers

----------------------------------------------------------------------------
(* Properties of get_pod_info and create_prompt. *)

\* The prompt holds the piece x.
Holds(p, x) == \E i \in DOMAIN p : p[i] = x

\* The first place of the piece x in the prompt.
IndexOf(p, x) ==
    CHOOSE i \in DOMAIN p : p[i] = x /\ \A j \in 1..(i - 1) : p[j] # x

\* get_pod_info has returned info and the prompt is not composed yet.
BundleReturned == pc = "create_prompt"

\* call_llm has composed the prompt from info.
PromptComposed == pc = "completions_create"

\* C4 as stated: the events section is left out exactly when the bundle has
\* no events or an empty event list, and the logs section is left out exactly
\* when the bundle has no logs.
C4_LogsSectionUnlessAbsent ==
    PromptComposed =>
        /\ ~Holds(prompt, EventsHeader) <=>
              ("Events" \notin DOMAIN info \/ info["Events"] = <<>>)
        /\ ~Holds(prompt, LogsHeader) <=> ("Logs" \notin DOMAIN info)

\* C4 as amended: the events section is left out exactly when the bundle has
\* no events or an empty event list, and the logs section is left out exactly
\* when the bundle has no logs or an empty log text.
C4_SectionsUnlessAbsentOrEmpty ==
    PromptComposed =>
        /\ ~Holds(prompt, EventsHeader) <=>
              ("Events" \notin DOMAIN info \/ info["Events"] = <<>>)
        /\ ~Holds(prompt, LogsHeader) <=>
              ("Logs" \notin DOMAIN info \/ info["Logs"] = <<>>)

\* A prompt composed from a bundle with matching events and an empty log
\* text: it has an events section and no logs section.
C4_Witness ==
    /\ PromptComposed
    /\ "Events" \in DOMAIN info /\ info["Events"] # <<>>
    /\ "Logs" \in DOMAIN info /\ info["Logs"] = <<>>
    /\ Holds(prompt, EventsHeader)
    /\ ~Holds(prompt, LogsHeader)

\* The pieces of the prompt that start an event line.
EventLineStarts(p) == {i \in DOMAIN p : p[i] = "Event: "}

\* C5: the prompt starts with the message and a line break, the pod-info
\* section follows at once, the events section (if any) comes after it with
\* every event line inside, and the logs section (if any) comes last, after
\* the events section, and runs to the end of the prompt.
C5_SectionOrder ==
    PromptComposed =>
        LET n == Len(args.message)
            e == IndexOf(prompt, EventsHeader)
            l == IndexOf(prompt, LogsHeader)
        IN  /\ Len(prompt) >= n + 2
            /\ SubSeq(prompt, 1, n) = args.message
            /\ prompt[n + 1] = "\n"
            /\ prompt[n + 2] = PodInfoHeader
            /\ \A i \in DOMAIN prompt :
                  /\ prompt[i] = PodInfoHeader => i = n + 2
                  /\ prompt[i] = EventsHeader => i = e
                  /\ prompt[i] = LogsHeader => i = l
            /\ Holds(prompt, EventsHeader) => e > n + 2
            /\ Holds(prompt, LogsHeader) => l > n + 2
            /\ \A i \in EventLineStarts(prompt) :
                  /\ Holds(prompt, EventsHeader) /\ i > e
                  /\ Holds(prompt, LogsHeader) => i < l
            /\ (Holds(prompt, EventsHeader) /\ Holds(prompt, LogsHeader))
                  => e < l
            /\ Holds(prompt, LogsHeader) =>
                  SubSeq(prompt, l + 1, Len(prompt)) = info["Logs"]

\* A prompt with both optional sections.
C5_Witness ==
    /\ PromptComposed
    /\ Holds(prompt, EventsHeader)
    /\ Holds(prompt, LogsHeader)
    /\ Cardinality(EventLineStarts(prompt)) >= 2

\* C6 as stated: the pod detail of the bundle has no managed-fields entry
\* under its metadata.
C6_NoManagedFieldsEntry ==
    "PodInfo" \in DOMAIN info =>
        "managed_fields" \notin DOMAIN info["PodInfo"]["metadata"]

\* C6 as amended: the managed-fields entry of the pod detail of the bundle
\* is always None, whatever the cluster returned, the other fields are those
\* the cluster returned, and the pod-info section of the prompt renders the
\* entry as null.
C6_ManagedFieldsNone ==
    /\ "PodInfo" \in DOMAIN info =>
          /\ info["PodInfo"]["metadata"]["managed_fields"] = None
          /\ pc \in {"list_namespaced_event", "read_namespaced_pod_log",
                     "create_prompt"} =>
                /\ info["PodInfo"]["metadata"]["name"] = pod_info.metadata.name
                /\ info["PodInfo"]["metadata"]["namespace"]
                      = pod_info.metadata.namespace
                /\ info["PodInfo"]["status"] = pod_info.status
    /\ PromptComposed =>
          \A i \in DOMAIN prompt :
              prompt[i] = "  managed_fields: " => prompt[i + 1] = "null"

\* The cluster returned a pod with managed fields and the bundle is built.
C6_Witness ==
    /\ BundleReturned
    /\ pod_info.metadata.managed_fields = "manager: kubelet"
    /\ info["PodInfo"]["metadata"]["managed_fields"] = None

\* The places of the events of the requested pod in the list the cluster
\* returned.
Matching == {i \in DOMAIN events : events[i].involved = args.pod}

\* The place of the k-th of them.
NthMatching(k) ==
    CHOOSE i \in Matching : Cardinality({j \in Matching : j < i}) = k - 1

\* C7: the events of the bundle are the events of the cluster's list whose
\* involved object is the requested pod: all of them, no other, in the order
\* of the list, each as its name, message and reason.
C7_EventsAreMatchingSubsequence ==
    (pc \in {"read_namespaced_pod_log", "create_prompt"}
        /\ args.include_events) =>
        /\ "Events" \in DOMAIN info
        /\ Len(info["Events"]) = Cardinality(Matching)
        /\ \A k \in 1..Len(info["Events"]) :
              info["Events"][k] =
                  [Name |-> events[NthMatching(k)].name,
                   Message |-> events[NthMatching(k)].message,
                   Reason |-> events[NthMatching(k)].reason]

\* The cluster listed two different events of the pod with an event of
\* another pod between them.
C7_Witness ==
    /\ BundleReturned
    /\ Len(events) = 3
    /\ events[1].involved = args.pod
    /\ events[2].involved # args.pod
    /\ events[3].involved = args.pod
    /\ events[1] # events[3]
    /\ Len(info["Events"]) = 2

\* C8: a returned bundle always has the pod detail, has events exactly when
\* include_events was passed, and has logs exactly when include_logs was.
C8_BundleKeys ==
    BundleReturned =>
        /\ "PodInfo" \in DOMAIN info
        /\ "Events" \in DOMAIN info <=> args.include_events
        /\ "Logs" \in DOMAIN info <=> args.include_logs
        /\ DOMAIN info \subseteq {"PodInfo", "Events", "Logs"}

\* Events were requested without logs, and no listed event is the pod's.
C8_Witness ==
    /\ BundleReturned
    /\ args.include_events /\ ~args.include_logs
    /\ events # <<>>
    /\ info["Events"] = <<>>
    /\ "Logs" \notin DOMAIN info

\* The cluster calls get_pod_info makes when no call fails.
ExpectedCalls(a) ==
    <<"read_namespaced_pod">>
    \o (IF a.include_events THEN <<"list_namespaced_event">> ELSE <<>>)
    \o (IF a.include_logs THEN <<"read_namespaced_pod_log">> ELSE <<>>)

IsClusterCall(call) == call # "chat.completions.create"
ClusterCalls == SelectSeq(calls, IsClusterCall)

IsPrefix(s, t) == Len(s) <= Len(t) /\ SubSeq(t, 1, Len(s)) = s

\* get_pod_info has ended: it returned its bundle, or a call of it raised.
GetPodInfoEnded ==
    \/ pc \in {"create_prompt", "completions_create", "append"}
    \/ pc = "idle" /\ outcome \in {"answered", "OpenAIError", "ApiException"}

GetPodInfoReturned ==
    \/ pc \in {"create_prompt", "completions_create", "append"}
    \/ pc = "idle" /\ outcome \in {"answered", "OpenAIError"}

\* C9 as stated: every invocation of get_pod_info makes one pod read, one
\* event listing exactly when include_events, one log read exactly when
\* include_logs, in that order, each once.
C9_EveryInvocationMakesAllCalls ==
    GetPodInfoEnded => ClusterCalls = ExpectedCalls(args)

\* C9 as amended: every invocation makes only read calls, each at most once
\* and in the order pod read, event listing, log read; an invocation that
\* returns a bundle has made exactly the pod read, the event listing exactly
\* when include_events and the log read exactly when include_logs; an
\* invocation that a failing call aborts has made the calls up to and
\* including the failing one.
C9_CallsOfGetPodInfo ==
    /\ \A i \in DOMAIN ClusterCalls :
          ClusterCalls[i] \in {"read_namespaced_pod", "list_namespaced_event",
                               "read_namespaced_pod_log"}
    /\ Called => IsPrefix(ClusterCalls, ExpectedCalls(args))
    /\ GetPodInfoReturned => ClusterCalls = ExpectedCalls(args)
    /\ outcome = "ApiException" => ClusterCalls # <<>>

\* A bundle with events and logs was returned after three calls.
C9_Witness ==
    /\ BundleReturned
    /\ args.include_events /\ args.include_logs
    /\ calls = <<"read_namespaced_pod", "list_namespaced_event",
                 "read_namespaced_pod_log">>

----------------------------------------------------------------------------
(* Properties of a turn: failures, order, history. *)

\* The last respond call ended, and not by returning a history.
Failed == pc = "idle" /\ Called /\ outcome \notin {"validation", "answered"}

\* C11: a bundle that get_pod_info returns has the pod detail and every
\* section that was requested; when a cluster call fails the turn ends with
\* that exception, the failing call being its last, without a bundle, a
\* prompt or a call of the model service, and the history is as it was.
C11_NoPartialBundle ==
    /\ pc \in {"create_prompt", "completions_create"} =>
          /\ "PodInfo" \in DOMAIN info
          /\ args.include_events => "Events" \in DOMAIN info
          /\ args.include_logs => "Logs" \in DOMAIN info
    /\ (prompt # <<>> \/ messages # <<>>) =>
          /\ ClusterCalls = ExpectedCalls(args)
          /\ pc \in {"completions_create", "append"}
    /\ outcome = "ApiException" =>
          /\ pc = "idle"
          /\ calls # <<>>
          /\ calls[Len(calls)] \in {"read_namespaced_pod",
                                    "list_namespaced_event",
                                    "read_namespaced_pod_log"}
          /\ Count(calls, "chat.completions.create") = 0
          /\ DOMAIN info = {}
          /\ prompt = <<>>
          /\ messages = <<>>
          /\ chatbot = chat_history

\* The log read failed after the pod read and the event listing succeeded.
C11_Witness ==
    /\ outcome = "ApiException"
    /\ calls = <<"read_namespaced_pod", "list_namespaced_event",
                 "read_namespaced_pod_log">>
    /\ DOMAIN info = {}
    /\ chatbot = chat_history

\* C12: a turn that fails in a cluster call ends with the cluster client's
\* exception and one that fails in the call of the model service with the
\* model client's exception, two different kinds; neither adds a turn to
\* the history, and a validation turn comes from no failed call.
C12_DistinctErrorKinds ==
    /\ Failed =>
          /\ calls # <<>>
          /\ calls[Len(calls)] \in {"read_namespaced_pod",
                                    "list_namespaced_event",
                                    "read_namespaced_pod_log"}
                => outcome = "ApiException"
          /\ calls[Len(calls)] = "chat.completions.create"
                => outcome = "OpenAIError"
          /\ outcome \in {"ApiException", "OpenAIError"}
          /\ chatbot = chat_history
    /\ outcome = "validation" => calls = <<>>

\* The call of the model service failed after the bundle was built, in a
\* session that has an earlier turn.
C12_Witness ==
    /\ Failed
    /\ outcome = "OpenAIError"
    /\ calls[Len(calls)] = "chat.completions.create"
    /\ Len(calls) >= 2
    /\ chat_history # <<>>
    /\ chatbot = chat_history

\* C13: no pod is selected while no namespace is; once the pod list on
\* display is the one fetched for the selected namespace, a selected pod is
\* one of that list, a pod of the selected namespace; and get_pod_info is
\* only ever called with a pod of the namespace it is called with.
C13_SelectedPodBelongsToNamespace ==
    /\ pod # None => namespace # None
    /\ (pod # None /\ pod_choices = list_pods(namespace)) =>
          pod \in SeqToSet(list_pods(namespace))
    /\ (Called /\ calls # <<>>) =>
          args.pod \in SeqToSet(list_pods(args.namespace))

\* The step of a valid submission a position of respond belongs to: get_pod_info
\* (1), create_prompt (2), the call of the model service (3), the append (4).
Stage(p) ==
    CASE p \in {"respond", "list_namespaced_event",
                 "read_namespaced_pod_log"} -> 1
      [] p = "create_prompt" -> 2
      [] p = "completions_create" -> 3
      [] p = "append" -> 4
      [] OTHER -> 0

\* C14: a valid submission goes through get_pod_info, then create_prompt on
\* the bundle get_pod_info returned, then the call of the model service on
\* the prompt create_prompt returned, then the append: each step starts when
\* the one before it has ended, none is skipped or taken twice, and the
\* history on display is the submitted one until the model service has
\* answered.
C14_StepsInOrder ==
    /\ [](/\ Stage(pc) \in {1, 2} =>
                /\ prompt = <<>> /\ messages = <<>> /\ bot_message = <<>>
                /\ Count(calls, "chat.completions.create") = 0
          /\ pc = "create_prompt" => calls = ExpectedCalls(args)
          /\ pc = "completions_create" =>
                /\ calls = ExpectedCalls(args)
                /\ prompt = create_prompt(args.message, info)
                /\ messages = <<>> /\ bot_message = <<>>
          /\ pc = "append" =>
                /\ calls = ExpectedCalls(args) \o <<"chat.completions.create">>
                /\ Len(messages) = 2
                /\ SubSeq(messages[2].content, 1, Len(args.message))
                      = args.message
                /\ Holds(messages[2].content, PodInfoHeader)
          /\ pc # "idle" => chatbot = chat_history
          /\ (pc = "idle" /\ outcome = "answered") =>
                /\ calls = ExpectedCalls(args) \o <<"chat.completions.create">>
                /\ chatbot = Append(chat_history, chatbot[Len(chatbot)]))
    /\ [][/\ (pc' # pc /\ pc # "idle" /\ pc' # "idle") =>
                /\ ~Invalid(args)
                /\ Stage(pc') \in {Stage(pc), Stage(pc) + 1}
                /\ Len(calls') >= Len(calls)
          /\ (Stage(pc) = 1 /\ Stage(pc') = 1 /\ pc' # pc) =>
                Len(calls') = Len(calls) + 1
          /\ (pc = "create_prompt" /\ pc' = "completions_create") =>
                /\ info' = info
                /\ prompt' = create_prompt(args.message, info)
          /\ (pc = "completions_create" /\ pc' = "append") =>
                /\ messages' = ChatMessages(prompt)
                /\ bot_message' \in Answers
          /\ (chatbot' # chatbot /\ ~Invalid(args)) =>
                /\ pc = "append"
                /\ chatbot'[Len(chatbot')][2] = bot_message
          /\ outcome' = "answered" => (pc = "append" \/ outcome = "answered")
       ]_vars

\* An answered turn on a bundle with events and logs, after the four calls.
C14_Witness ==
    /\ pc = "idle"
    /\ outcome = "answered"
    /\ args.include_events /\ args.include_logs
    /\ calls = <<"read_namespaced_pod", "list_namespaced_event",
                 "read_namespaced_pod_log", "chat.completions.create">>
    /\ chatbot = Append(chat_history, <<new_message(args), chatbot[Len(chatbot)][2]>>)

\* The text t ends with the text m.
EndsWith(t, m) ==
    Len(m) <= Len(t) /\ SubSeq(t, Len(t) - Len(m) + 1, Len(t)) = m

\* A respond call returns its history: the validation turn or the answer.
Completes == pc # "idle" /\ pc' = "idle" /\ outcome' \in {"validation", "answered"}

\* C15: the history on display only grows at its end: every step that
\* changes it is the return of a respond call and adds one turn after the
\* turns it had, which stay as they were; every respond call that returns
\* adds one turn; and the turn added is the one of the message submitted
\* last, so the turns stand in the order of their submissions.
C15_HistoryAppendOnly ==
    [][/\ chatbot' # chatbot =>
            /\ Completes
            /\ Len(chatbot') = Len(chatbot) + 1
            /\ SubSeq(chatbot', 1, Len(chatbot)) = chatbot
       /\ Completes =>
            /\ Len(chatbot') = Len(chatbot) + 1
            /\ SubSeq(chatbot', 1, Len(chatbot)) = chatbot
            /\ EndsWith(chatbot'[Len(chatbot')][1],
                        IF args.message = <<>> THEN <<"Error">>
                        ELSE args.message)
            /\ outcome' = "validation" <=>
                  chatbot'[Len(chatbot')][2] = ValidationMessage
       /\ (pc = "idle" /\ pc' # "idle") => chat_history' = chatbot
      ]_vars

\* A validation turn and, after it, an answered turn are on display.
C15_Witness ==
    /\ pc = "idle"
    /\ Len(chatbot) = 2
    /\ chatbot[1] = << <<"Error">>, ValidationMessage >>
    /\ chatbot[2][2] \in Answers
    /\ chat_history = << chatbot[1] >>

\* The prompt has the line `key value` of the dumped pod dictionary.
HasYamlLine(p, key, value) ==
    \E i \in 1..(Len(p) - 1) : p[i] = key /\ p[i + 1] = value

\* The step makes the cluster call named.
Calls(call) == calls' = Append(calls, call) /\ pc' # "idle"

\* C17: nothing of a bundle outlives its turn. Between turns and when a
\* respond call starts there is no bundle, no event list and no prompt;
\* every valid submission takes the namespace, the pod and the toggles
\* selected when it is made, reads the pod anew, and lists the events and
\* reads the logs anew when they are requested; the bundle is made of what
\* these calls returned and the prompt of that bundle.
C17_FreshBundleEveryTurn ==
    /\ [](/\ pc \in {"idle", "respond"} =>
                /\ DOMAIN info = {} /\ events = <<>>
                /\ prompt = <<>> /\ messages = <<>>
          /\ pc = "respond" => calls = <<>>
          /\ pc \in {"create_prompt", "completions_create"} =>
                /\ calls = ExpectedCalls(args)
                /\ info["PodInfo"]["metadata"]["name"] = args.pod
                /\ info["PodInfo"]["metadata"]["namespace"] = args.namespace
          /\ pc = "create_prompt" =>
                /\ info["PodInfo"]["status"] = pod_info.status
                /\ args.include_events =>
                      Len(info["Events"]) = Cardinality(Matching)
          /\ pc = "completions_create" =>
                /\ HasYamlLine(prompt, "  name: ", args.pod)
                /\ HasYamlLine(prompt, "  namespace: ", args.namespace)
                /\ HasYamlLine(prompt, "  phase: ",
                               info["PodInfo"]["status"]["phase"])
                /\ Holds(prompt, EventsHeader) =>
                      (args.include_events /\ info["Events"] # <<>>)
                /\ Holds(prompt, LogsHeader) =>
                      (args.include_logs /\ info["Logs"] # <<>>))
    /\ [][/\ (pc = "idle" /\ pc' # "idle") =>
                /\ args'.namespace = namespace /\ args'.pod = pod
                /\ args'.include_events = include_events
                /\ args'.include_logs = include_logs
                /\ calls' = <<>>
          /\ (pc = "respond" /\ Stage(pc') \in {1, 2} /\ pc' # pc) =>
                /\ Calls("read_namespaced_pod")
                /\ info'["PodInfo"]["status"] = pod_info'.status
          /\ (pc = "list_namespaced_event" /\ pc' # pc /\ pc' # "idle") =>
                /\ Calls("list_namespaced_event")
                /\ info'["Events"] = EventsOfPod(events', args.pod)
          /\ (pc = "read_namespaced_pod_log" /\ pc' # pc /\ pc' # "idle") =>
                /\ Calls("read_namespaced_pod_log")
                /\ "Logs" \in DOMAIN info'
       ]_vars

\* The second turn of a session on the pod of the first, which was answered
\* without events and logs: both are now requested, fetched, and in the
\* prompt.
C17_Witness ==
    /\ pc = "completions_create"
    /\ Len(chat_history) = 1
    /\ chat_history[1][2] \in Answers
    /\ chat_history[1][1] = new_message([args EXCEPT !.include_events = FALSE,
                                                      !.include_logs = FALSE])
    /\ args.include_events /\ args.include_logs
    /\ calls = <<"read_namespaced_pod", "list_namespaced_event",
                 "read_namespaced_pod_log">>
    /\ Holds(prompt, EventsHeader)
    /\ Holds(prompt, LogsHeader)

\* A respond call ends with an exception.
Fails == pc # "idle" /\ pc' = "idle" /\ outcome' \notin {"validation", "answered"}

\* C18: a valid submission that fails in a cluster call or in the call of
\* the model service adds no turn: the step that ends it leaves the history
\* on display and the selection as they are, and after it the history is the
\* one the submission was made on; only valid submissions fail.
C18_FailedTurnLeavesState ==
    /\ [](Failed =>
            /\ ~Invalid(args)
            /\ chatbot = chat_history
            /\ bot_message = <<>>)
    /\ [][Fails =>
            /\ ~Invalid(args)
            /\ outcome' \in {"ApiException", "OpenAIError"}
            /\ chatbot' = chatbot
            /\ chatbot' = chat_history
            /\ chat_history' = chat_history
            /\ UNCHANGED sel]_vars

\* The pod read of the second turn of a session failed; the first turn and
\* the selection the submission was made on are still on display.
C18_Witness ==
    /\ Failed
    /\ outcome = "ApiException"
    /\ calls = <<"read_namespaced_pod">>
    /\ Len(chatbot) = 1
    /\ chatbot = chat_history
    /\ namespace = args.namespace /\ pod = args.pod
    /\ include_events = args.include_events
    /\ include_logs = args.include_logs

\* Line 173 written out: the displayed request of an answered turn.
DisplayedRequest(a) ==
    <<"Namespace ", a.namespace, ", Pod: ", a.pod, ", Include Events: ",
      IF a.include_events THEN "True" ELSE "False", ", Include Logs: ",
      IF a.include_logs THEN "True" ELSE "False", " \n ">> \o a.message

\* C19: the turn of an answered submission shows the namespace, the pod and
\* the two toggles the submission was made with, which are those of the
\* bundle built in the turn, then the message; its response is the answer
\* the model service gave to the prompt composed from that message and that
\* bundle.
C19_TurnShowsRequestAndAnswer ==
    /\ [](/\ (pc = "idle" /\ outcome = "answered") =>
                /\ chatbot[Len(chatbot)][1] = DisplayedRequest(args)
                /\ chatbot[Len(chatbot)][2] \in Answers
                /\ args.include_events <=>
                      Count(calls, "list_namespaced_event") = 1
                /\ args.include_logs <=>
                      Count(calls, "read_namespaced_pod_log") = 1
          /\ pc = "append" =>
                /\ bot_message \in Answers
                /\ SubSeq(messages[2].content, 1, Len(args.message))
                      = args.message
                /\ HasYamlLine(messages[2].content, "  name: ", args.pod)
                /\ HasYamlLine(messages[2].content, "  namespace: ",
                               args.namespace)
                /\ Holds(messages[2].content, EventsHeader)
                      => args.include_events
                /\ Holds(messages[2].content, LogsHeader)
                      => args.include_logs)
    /\ [][/\ (pc = "append" /\ pc' # pc) =>
                /\ outcome' = "answered"
                /\ chatbot' = Append(chatbot,
                                     <<DisplayedRequest(args), bot_message>>)
                /\ args' = args
          /\ (pc = "create_prompt" /\ pc' # pc) =>
                /\ info["PodInfo"]["metadata"]["name"] = args.pod
                /\ "Events" \in DOMAIN info <=> args.include_events
                /\ "Logs" \in DOMAIN info <=> args.include_logs
                /\ prompt' = create_prompt(args.message, info)
          /\ (pc = "completions_create" /\ pc' = "append") =>
                messages'[2].content = prompt
       ]_vars

\* An answered turn that shows the toggles of its submission, events with
\* logs, after the user has switched the events off again.
C19_Witness ==
    /\ pc = "idle"
    /\ outcome = "answered"
    /\ args.include_events /\ args.include_logs
    /\ ~include_events
    /\ chatbot[Len(chatbot)][1] =
          <<"Namespace ", "ns1", ", Pod: ", "p1", ", Include Events: ", "True",
            ", Include Logs: ", "True", " \n ", "why is it failing?">>

\* A step of respond: the submission or a step of the callback.
RespondStep == pc' # pc \/ calls' # calls

\* C20: no step of a submission, rejected or answered or failed, changes the
\* namespace, the pod, its choices or a toggle; so a session with a pod
\* selected has it selected after every turn, unless the user changes it.
C20_SubmissionKeepsSelection ==
    [][RespondStep =>
          /\ namespace' = namespace
          /\ pod' = pod
          /\ pod_choices' = pod_choices
          /\ include_events' = include_events
          /\ include_logs' = include_logs]_vars

\* A pod is selected after an answered and then a rejected submission on it.
C20_Witness ==
    /\ pc = "idle"
    /\ outcome = "validation"
    /\ Len(chatbot) = 2
    /\ chatbot[1][2] \in Answers
    /\ chatbot[2][2] = ValidationMessage
    /\ namespace # None /\ pod # None
    /\ pod = args.pod /\ namespace = args.namespace

====
